---------------------------- MODULE Spec2Model ----------------------------
(***************************************************************************)
(* A model of the huffman_coding crate (src/src/lib.rs): HuffmanTree with  *)
(* its construction from a probability table or from sample data, the      *)
(* table serialisation, the lookup table, HuffmanWriter and HuffmanReader. *)
(*                                                                         *)
(* A tree is <<"Leaf", symbol, prob>> or <<"Node", zero, one>>.            *)
(* A probability table is a sequence of TableLen weights; entry i+1 is the *)
(* weight of byte i.                                                       *)
(***************************************************************************)
EXTENDS Integers, Sequences, FiniteSets, TLC

\* ------------------------------------------------------------- bounds
\* Largest byte value that occurs in the inputs drawn by the model.
MaxByte == 2
\* Longest enumerated sample.
MaxLen == 4
\* Longest foreign bit stream handed to the reader.
MaxBits == 4
\* Longest caller buffer handed to one read call.
MaxBuf == 3
\* Longest message written through a tree built from a table.
MaxWrite == 2

\* ---------------------------------------------------- program constants
\* [u8; 256] / [usize; 256]
TableLen == 256
\* u8 and u16 value ranges
U8 == 256
U16 == 65536

Bytes == 0..MaxByte
\* Weights from which the tables handed to from_table directly are drawn.
Weights == {0, 1, 255}
\* Occurrence counts from which the histograms of long samples are drawn.
Counts == {0, 1, 2, 256, 1000}

None == <<"None">>
Panic == <<"Panic">>

Max(a, b) == IF a >= b THEN a ELSE b

\* ------------------------------------------------------------- HuffmanTree
Leaf(x, prob) == <<"Leaf", x, prob>>
Node(zero, one) == <<"Node", zero, one>>
IsLeaf(t) == t[1] = "Leaf"
IsNode(t) == t[1] = "Node"

\* fn get_probability(&self) -> u16
RECURSIVE get_probability(_)
get_probability(t) ==
    IF IsLeaf(t) THEN t[3]
    ELSE (get_probability(t[2]) + get_probability(t[3])) % U16

\* impl Ord for HuffmanTree: "Less" | "Equal" | "Greater"
cmp(self, other) ==
    LET own_prob == get_probability(self)
        other_prob == get_probability(other)
    IN IF own_prob > other_prob THEN "Less"
       ELSE IF own_prob = other_prob THEN "Equal"
       ELSE "Greater"

\* The comparison operators PartialOrd derives from partial_cmp = Some(cmp).
Lt(a, b) == cmp(a, b) = "Less"
Gt(a, b) == cmp(a, b) = "Greater"
Le(a, b) == cmp(a, b) # "Greater"
Ge(a, b) == cmp(a, b) # "Less"

\* An equality that compares the variants only.
TreeEqShallow(a, b) == a[1] = b[1]

\* impl PartialEq for HuffmanTree
RECURSIVE TreeEq(_, _)
TreeEq(a, b) ==
    IF IsLeaf(a) /\ IsLeaf(b) THEN a[2] = b[2] /\ a[3] = b[3]
    ELSE IF IsNode(a) /\ IsNode(b) THEN TreeEq(a[2], b[2]) /\ TreeEq(a[3], b[3])
    ELSE FALSE

\* ------------------------------------------------------------- BinaryHeap
\* std::collections::BinaryHeap over a Vec (here a sequence, index 0 of the
\* Vec is element 1), ordered by the Ord above.
Swap(d, i, j) == [d EXCEPT ![i + 1] = d[j + 1], ![j + 1] = d[i + 1]]

\* sift_up(start, pos): move the element at pos up while it is greater
\* than its parent.
RECURSIVE sift_up(_, _, _)
sift_up(d, start, pos) ==
    IF pos > start
    THEN LET parent == (pos - 1) \div 2
         IN IF Le(d[pos + 1], d[parent + 1]) THEN d
            ELSE sift_up(Swap(d, pos, parent), start, parent)
    ELSE d

\* The greater child of pos among the elements below end; the right one on
\* a tie.
GreaterChild(d, pos, end) ==
    LET child == 2 * pos + 1
        right == child + 1
    IN IF right < end /\ ~Gt(d[child + 1], d[right + 1]) THEN right ELSE child

\* sift_down_range(pos, end)
RECURSIVE sift_down_range(_, _, _)
sift_down_range(d, pos, end) ==
    IF 2 * pos + 1 < end
    THEN LET child == GreaterChild(d, pos, end)
         IN IF Ge(d[pos + 1], d[child + 1]) THEN d
            ELSE sift_down_range(Swap(d, pos, child), child, end)
    ELSE d

\* The first half of sift_down_to_bottom(pos): move the hole all the way
\* down; yields <<data, final position>>.
RECURSIVE sink_to_bottom(_, _, _)
sink_to_bottom(d, pos, end) ==
    IF 2 * pos + 1 < end
    THEN LET child == GreaterChild(d, pos, end)
         IN sink_to_bottom(Swap(d, pos, child), child, end)
    ELSE <<d, pos>>

sift_down_to_bottom(d, pos) ==
    LET r == sink_to_bottom(d, pos, Len(d))
    IN sift_up(r[1], pos, r[2])

\* rebuild(): n = len / 2; while n > 0 { n -= 1; sift_down(n) }
RECURSIVE rebuild(_, _)
rebuild(d, n) ==
    IF n > 0 THEN rebuild(sift_down_range(d, n - 1, Len(d)), n - 1) ELSE d

\* BinaryHeap::from(vec) as used by collect()
HeapFromVec(v) == rebuild(v, Len(v) \div 2)

\* pop() on a non-empty heap: <<item, data>>
HeapPop(d) ==
    LET n == Len(d)
        last == d[n]
        rest == SubSeq(d, 1, n - 1)
    IN IF n = 1 THEN <<last, rest>>
       ELSE <<d[1], sift_down_to_bottom([rest EXCEPT ![1] = last], 0)>>

\* push(item)
HeapPush(d, item) == sift_up(Append(d, item), 0, Len(d))

\* ------------------------------------------------------------- from_table
\* data.iter().enumerate().filter(|x| *x.1 > 0).map(Leaf(index, weight))
HasWeight(leaf) == leaf[3] > 0
LeavesFrom(data) ==
    SelectSeq([i \in 1..Len(data) |-> Leaf(i - 1, data[i])], HasWeight)

\* The insert with the comparison inverted.
MergeNodeFlipped(a, b) == IF Lt(a, b) THEN Node(b, a) ELSE Node(a, b)

\* The insert of one round of the merge loop.
MergeNode(a, b) == IF Lt(a, b) THEN Node(a, b) ELSE Node(b, a)

\* while heap.len() > 2 { pop a; pop b; push(merge) }
RECURSIVE MergeLoop(_)
MergeLoop(heap) ==
    IF Len(heap) > 2
    THEN LET pa == HeapPop(heap)
             pb == HeapPop(pa[2])
         IN MergeLoop(HeapPush(pb[2], MergeNode(pa[1], pb[1])))
    ELSE heap

\* pub fn from_table(data: &[u8]) -> Self; Panic is the unwrap() of an
\* empty pop.
from_table(data) ==
    LET heap == MergeLoop(HeapFromVec(LeavesFrom(data)))
    IN IF Len(heap) < 2 THEN Panic
       ELSE LET pa == HeapPop(heap)
                pb == HeapPop(pa[2])
            IN Node(pa[1], pb[1])

\* ------------------------------------------------------------- from_data
\* The counting loop of from_data: <<probability, max>>.
RECURSIVE CountLoop(_, _, _, _)
CountLoop(data, i, probability, max) ==
    IF i > Len(data) THEN <<probability, max>>
    ELSE LET item == data[i]
             c == probability[item + 1] + 1
         IN CountLoop(data, i + 1, [probability EXCEPT ![item + 1] = c],
                      IF c > max THEN c ELSE max)

\* An entry without the lower bound of 1.
NormEntryNoClamp(count, max_elem) ==
    IF count > 0 THEN ((count * 255) \div max_elem) % U8 ELSE 0

\* One entry of normalize: cmp::max((data[i] * 255 / max_elem) as u8, 1)
NormEntry(count, max_elem) ==
    IF count > 0 THEN Max(((count * 255) \div max_elem) % U8, 1) ELSE 0

\* fn normalize(data: &[usize], max_elem: usize) -> [u8; 256]
normalize(data, max_elem) ==
    [i \in 1..TableLen |-> IF i <= Len(data) THEN NormEntry(data[i], max_elem) ELSE 0]

\* The table from_data hands to from_table.
NormOf(data) ==
    LET cm == CountLoop(data, 1, [i \in 1..TableLen |-> 0], 0)
    IN normalize(cm[1], cm[2])

\* pub fn from_data(data: &[u8]) -> Self
from_data(data) == from_table(NormOf(data))

\* ------------------------------------------------------------- to_table
\* The search that never looks into the one branch.
RECURSIVE ByteProbZeroOnly(_, _)
ByteProbZeroOnly(t, byte) ==
    IF IsLeaf(t) THEN (IF t[2] = byte THEN <<"Some", t[3]>> ELSE None)
    ELSE ByteProbZeroOnly(t[2], byte)

\* pub fn get_byte_prob(&self, byte: u8) -> Option<u8>; None or <<"Some", p>>
RECURSIVE get_byte_prob(_, _)
get_byte_prob(t, byte) ==
    IF IsLeaf(t) THEN (IF t[2] = byte THEN <<"Some", t[3]>> ELSE None)
    ELSE LET z == get_byte_prob(t[2], byte)
         IN IF z # None THEN z ELSE get_byte_prob(t[3], byte)

\* pub fn to_table(&self) -> [u8; 256]
to_table(t) ==
    [i \in 1..TableLen |->
        LET p == get_byte_prob(t, i - 1) IN IF p = None THEN 0 ELSE p[2]]

\* ------------------------------------------------------------- lookup table
\* data.insert(elem, prev) on the HashMap
MapInsert(data, k, v) ==
    [x \in DOMAIN data \cup {k} |-> IF x = k THEN v ELSE data[x]]

\* The traversal with the pushed bits exchanged.
RECURSIVE LookupInnerSwapped(_, _, _)
LookupInnerSwapped(t, data, prev) ==
    IF IsLeaf(t) THEN MapInsert(data, t[2], prev)
    ELSE LookupInnerSwapped(t[3],
             LookupInnerSwapped(t[2], data, Append(prev, TRUE)),
             Append(prev, FALSE))

\* fn to_lookup_table_inner(&self, data, prev)
RECURSIVE to_lookup_table_inner(_, _, _)
to_lookup_table_inner(t, data, prev) ==
    IF IsLeaf(t) THEN MapInsert(data, t[2], prev)
    ELSE LET zero_branch == Append(prev, FALSE)
             one_branch == Append(prev, TRUE)
         IN to_lookup_table_inner(t[3],
                to_lookup_table_inner(t[2], data, zero_branch), one_branch)

\* fn to_lookup_table(&self) -> HashMap<u8, BitVec>
to_lookup_table(t) == to_lookup_table_inner(t, <<>>, <<>>)

\* ------------------------------------------------------------- bit sink
\* bitstream::BitWriter as HuffmanWriter uses it: bits are packed most
\* significant first, a full byte is handed on when the next bit arrives,
\* and dropping the writer hands on the byte in progress followed by the
\* number of bits it holds (test_writer: 12 bits give [175, 0, 4]; the
\* HuffmanWriter example: 8 bits give [43, 8]).
NewSink == [out |-> <<>>, buf |-> 0, count |-> 0]

Pow2(n) == IF n = 0 THEN 1 ELSE IF n = 1 THEN 2 ELSE IF n = 2 THEN 4
           ELSE IF n = 3 THEN 8 ELSE IF n = 4 THEN 16 ELSE IF n = 5 THEN 32
           ELSE IF n = 6 THEN 64 ELSE 128

\* self.inner.write_bit(bit)
write_bit(s, bit) ==
    LET f == IF s.count = 8
             THEN [out |-> Append(s.out, s.buf), buf |-> 0, count |-> 0]
             ELSE s
    IN [out |-> f.out,
        buf |-> f.buf + (IF bit THEN Pow2(7 - f.count) ELSE 0),
        count |-> f.count + 1]

\* for bit in bits { write_bit(bit)? }
RECURSIVE WriteBits(_, _, _)
WriteBits(s, bits, i) ==
    IF i > Len(bits) THEN s ELSE WriteBits(write_bit(s, bits[i]), bits, i + 1)

\* The bytes the inner writer holds once the bit writer is dropped.
SinkDrop(s) == s.out \o <<s.buf, s.count>>

\* Number of bits a sink has received.
SinkBits(s) == 8 * Len(s.out) + s.count

\* ------------------------------------------------------------- bit source
\* bitstream::BitReader as HuffmanReader uses it, over the bytes a dropped
\* BitWriter produced: the last byte counts the bits of the byte before it
\* (test_reader: [175, 0, 4] holds 12 bits, then read_bit gives None).
ValidBits(src) == 8 * (Len(src) - 2) + src[Len(src)]

\* self.inner.read_bit(): None or <<"Some", bit>>; pos counts the bits
\* read so far.
read_bit(src, pos) ==
    IF pos < ValidBits(src)
    THEN <<"Some", (src[(pos \div 8) + 1] \div Pow2(7 - (pos % 8))) % 2 = 1>>
    ELSE None

\* ------------------------------------------------------------- HuffmanWriter
\* HuffmanWriter::write: the loop over buf from item i on. The result holds
\* the sink, whether the call returns Ok, and the count it returns.
RECURSIVE WriteLoop(_, _, _, _)
WriteLoop(tbl, s, buf, i) ==
    IF i > Len(buf) THEN [ok |-> TRUE, n |-> Len(buf), sink |-> s, done |-> Len(buf)]
    ELSE IF buf[i] \notin DOMAIN tbl
         THEN [ok |-> FALSE, n |-> 0, sink |-> s, done |-> i - 1]
         ELSE WriteLoop(tbl, WriteBits(s, tbl[buf[i]], 1), buf, i + 1)

\* ------------------------------------------------------------- HuffmanReader
\* The end-of-stream test with the comparison inverted.
AtEofInverted(root, state) ==
    IF TreeEq(root, state) THEN "InvalidData" ELSE "break"

\* What read returns when the bit source is exhausted.
AtEof(root, state) == IF ~TreeEq(root, state) THEN "InvalidData" ELSE "break"

\* The child a bit selects, with the branches exchanged.
ChildSwapped(state, bit) == IF bit THEN state[2] ELSE state[3]

\* The child a bit selects.
Child(state, bit) == IF bit THEN state[3] ELSE state[2]

\* The walk stays on the leaf it reached.
AfterLeafStay(root, leaf) == leaf

\* state = &self.tree, once a leaf's byte is stored
AfterLeaf(root, leaf) == root

\* HuffmanReader::read: the while loop. produced are the bytes stored in
\* buf[0..pos); partial counts the bits consumed since the last byte was
\* stored.
RECURSIVE ReadLoop(_, _, _, _, _, _, _)
ReadLoop(root, state, src, bitpos, buflen, produced, partial) ==
    IF Len(produced) < buflen
    THEN LET bit_opt == read_bit(src, bitpos)
         IN IF bit_opt # None
            THEN IF IsLeaf(state)
                 THEN ReadLoop(root, AfterLeaf(root, state), src, bitpos + 1,
                               buflen, Append(produced, state[2]), 0)
                 ELSE LET next == Child(state, bit_opt[2])
                      IN IF IsLeaf(next)
                         THEN ReadLoop(root, AfterLeaf(root, next), src,
                                       bitpos + 1, buflen,
                                       Append(produced, next[2]), 0)
                         ELSE ReadLoop(root, next, src, bitpos + 1, buflen,
                                       produced, partial + 1)
            ELSE IF AtEof(root, state) = "InvalidData"
                 THEN [ok |-> FALSE, n |-> 0, bytes |-> <<>>, bitpos |-> bitpos,
                       eof |-> TRUE, partial |-> partial]
                 ELSE [ok |-> TRUE, n |-> Len(produced), bytes |-> produced,
                       bitpos |-> bitpos, eof |-> TRUE, partial |-> partial]
    ELSE [ok |-> TRUE, n |-> Len(produced), bytes |-> produced,
          bitpos |-> bitpos, eof |-> FALSE, partial |-> partial]

\* ------------------------------------------------------------- state
VARIABLES
    input,      \* what the tree is built from: sample data or a table
    pc,         \* "start" | "built" | "panicked"
    table,      \* the normalised table from_data handed to from_table
    tree,       \* the HuffmanTree
    rtable,     \* to_table(tree)
    rtree,      \* from_table(rtable)
    writer,     \* "none" | "open" | "failed" | "dropped"
    lookup,     \* HuffmanWriter.table
    sink,       \* HuffmanWriter.inner
    msg,        \* the bytes the caller writes
    wpos,       \* how many of them the caller has written
    emitted,    \* the bytes whose bits the writer has emitted
    wres,       \* the result of the last write call
    stream,     \* the bytes the reader reads from
    reader,     \* "none" | "open"
    rbit,       \* bits the reader has consumed
    out,        \* the bytes the read calls have returned
    rres        \* the result of the last read call

vars == <<input, pc, table, tree, rtable, rtree, writer, lookup, sink, msg,
          wpos, emitted, wres, stream, reader, rbit, out, rres>>

treeVars == <<table, tree, rtable, rtree>>
writerVars == <<writer, lookup, sink, wpos, emitted, wres>>
readerVars == <<reader, rbit, out, rres>>

\* The samples of the documentation examples and of the tests.
DocSample == <<0, 0, 1, 2, 2>>
TestSamples == {DocSample, <<1, 1, 0, 0, 2>>, <<1, 2, 3, 1, 1, 2>>}
\* The message of test_writer and the table and stream of test_reader.
TestMessage == <<0, 0, 1, 1, 2, 2, 2, 2>>
TestWeights == (0 :> 255) @@ (1 :> 128) @@ (2 :> 255)
TestStream == <<175, 0, 4>>

Samples == UNION {[1..n -> Bytes] : n \in 0..MaxLen} \cup TestSamples
TableOf(w) ==
    [i \in 1..TableLen |-> IF i - 1 \in DOMAIN w THEN w[i - 1] ELSE 0]
MaxOf(S) == CHOOSE m \in S : \A x \in S : x <= m
DataInputs == {[kind |-> "data", data |-> s] : s \in Samples}
TableInputs ==
    {[kind |-> "table", data |-> TableOf(w)] :
        w \in [Bytes -> Weights] \cup {TestWeights}}
\* The state of from_data after its counting loop over a long sample:
\* the occurrence counts and their maximum.
CountInputs ==
    {[kind |-> "counts", data |-> TableOf(c),
      max |-> MaxOf({c[b] : b \in Bytes})] : c \in [Bytes -> Counts]}
Messages == UNION {[1..n -> Bytes] : n \in 0..MaxWrite} \cup {TestMessage}

BitSeqs == UNION {[1..n -> BOOLEAN] : n \in 1..MaxBits}
\* The byte streams a dropped bit writer leaves for the bit sequences.
ForeignStreams ==
    {SinkDrop(WriteBits(NewSink, b, 1)) : b \in BitSeqs} \cup {TestStream}

NoWrite == [called |-> FALSE, ok |-> TRUE, n |-> 0, buf |-> <<>>, before |-> 0]
NoRead == [called |-> FALSE, ok |-> TRUE, n |-> 0, req |-> 0, eof |-> FALSE,
           partial |-> 0, start |-> 0, bytes |-> <<>>]

InitRest ==
    /\ pc = "start"
    /\ table = <<>>
    /\ tree = None
    /\ rtable = <<>>
    /\ rtree = None
    /\ writer = "none"
    /\ lookup = <<>>
    /\ sink = NewSink
    /\ wpos = 0
    /\ emitted = <<>>
    /\ wres = NoWrite
    /\ reader = "none"
    /\ rbit = 0
    /\ out = <<>>
    /\ rres = NoRead

\* encode.rs: the tree is built from the data that is then written.
Init ==
    /\ input \in DataInputs
    /\ msg = input.data
    /\ stream = <<>>
    /\ InitRest

\* ------------------------------------------------------------- actions
\* HuffmanTree::from_data(&input)
FromData ==
    /\ pc = "start"
    /\ input.kind = "data"
    /\ table' = NormOf(input.data)
    /\ tree' = from_table(table')
    /\ pc' = IF tree' = Panic THEN "panicked" ELSE "built"
    /\ UNCHANGED <<input, rtable, rtree, msg, stream>>
    /\ UNCHANGED writerVars
    /\ UNCHANGED readerVars

\* HuffmanTree::from_table(&input)
FromTable ==
    /\ pc = "start"
    /\ input.kind = "table"
    /\ tree' = from_table(input.data)
    /\ pc' = IF tree' = Panic THEN "panicked" ELSE "built"
    /\ UNCHANGED <<input, table, rtable, rtree, msg, stream>>
    /\ UNCHANGED writerVars
    /\ UNCHANGED readerVars

\* from_data from the call of normalize on, for the counts of a long sample
FromCounts ==
    /\ pc = "start"
    /\ input.kind = "counts"
    /\ table' = normalize(input.data, input.max)
    /\ tree' = from_table(table')
    /\ pc' = IF tree' = Panic THEN "panicked" ELSE "built"
    /\ UNCHANGED <<input, rtable, rtree, msg, stream>>
    /\ UNCHANGED writerVars
    /\ UNCHANGED readerVars

\* tree.to_table()
ToTable ==
    /\ pc = "built"
    /\ rtable = <<>>
    /\ rtable' = to_table(tree)
    /\ UNCHANGED <<input, pc, table, tree, rtree, msg, stream>>
    /\ UNCHANGED writerVars
    /\ UNCHANGED readerVars

\* HuffmanTree::from_table(&table) on the serialised table (decode.rs)
Rebuild ==
    /\ rtable # <<>>
    /\ rtree = None
    /\ rtree' = from_table(rtable)
    /\ UNCHANGED <<input, pc, table, tree, rtable, msg, stream>>
    /\ UNCHANGED writerVars
    /\ UNCHANGED readerVars

\* HuffmanWriter::new(writer, &tree)
NewWriter ==
    /\ pc = "built"
    /\ writer = "none"
    /\ writer' = "open"
    /\ lookup' = to_lookup_table(tree)
    /\ sink' = NewSink
    /\ UNCHANGED <<input, pc, msg, stream, wpos, emitted, wres>>
    /\ UNCHANGED treeVars
    /\ UNCHANGED readerVars

\* writer.write(buf) with buf the next k bytes of msg
Write(k) ==
    /\ writer = "open"
    /\ LET buf == SubSeq(msg, wpos + 1, wpos + k)
           r == WriteLoop(lookup, sink, buf, 1)
       IN /\ sink' = r.sink
          /\ wres' = [called |-> TRUE, ok |-> r.ok, n |-> r.n, buf |-> buf,
                      before |-> SinkBits(sink)]
          /\ emitted' = emitted \o SubSeq(buf, 1, r.done)
          /\ wpos' = wpos + r.n
          /\ writer' = IF r.ok THEN "open" ELSE "failed"
    /\ UNCHANGED <<input, pc, msg, stream, lookup>>
    /\ UNCHANGED treeVars
    /\ UNCHANGED readerVars

\* The writer goes out of scope, after the caller has written its message
\* or a write has failed: the bit writer is dropped and the inner writer
\* holds the stream; the writer's table, sink and last result are gone with
\* it. (The bytes a bit writer leaves that never received a bit are not
\* fixed by this repository.)
DropWriter ==
    /\ writer = "failed" \/ (writer = "open" /\ wpos = Len(msg))
    /\ SinkBits(sink) > 0
    /\ writer' = "dropped"
    /\ stream' = SinkDrop(sink)
    /\ lookup' = <<>>
    /\ sink' = NewSink
    /\ wres' = NoWrite
    /\ UNCHANGED <<input, pc, msg, wpos, emitted>>
    /\ UNCHANGED treeVars
    /\ UNCHANGED readerVars

\* HuffmanReader::new(Cursor::new(stream), tree)
NewReader ==
    /\ pc = "built"
    /\ reader = "none"
    /\ stream # <<>>
    /\ reader' = "open"
    /\ rbit' = 0
    /\ UNCHANGED <<input, pc, msg, stream, out, rres>>
    /\ UNCHANGED treeVars
    /\ UNCHANGED writerVars

\* reader.read(&mut buf) with buf.len() = n
Read(n) ==
    /\ reader = "open"
    /\ LET r == ReadLoop(tree, tree, stream, rbit, n, <<>>, 0)
       IN /\ rbit' = r.bitpos
          /\ out' = out \o r.bytes
          /\ rres' = [called |-> TRUE, ok |-> r.ok, n |-> r.n, req |-> n,
                      eof |-> r.eof, partial |-> r.partial, start |-> rbit,
                      bytes |-> r.bytes]
    /\ UNCHANGED <<input, pc, msg, stream, reader>>
    /\ UNCHANGED treeVars
    /\ UNCHANGED writerVars

WriteSome == \E k \in 0..(Len(msg) - wpos) : Write(k)
ReadSome == \E n \in 0..MaxBuf : Read(n)

\* An encode and decode session.
Next ==
    \/ FromData
    \/ NewWriter
    \/ WriteSome
    \/ DropWriter
    \/ NewReader
    \/ ReadSome

Spec == Init /\ [][Next]_vars

\* Building, serialising and rebuilding trees.
InitTree ==
    /\ input \in DataInputs \cup TableInputs \cup CountInputs
    /\ msg = <<>>
    /\ stream = <<>>
    /\ InitRest

NextTree ==
    \/ FromData
    \/ FromTable
    \/ FromCounts
    \/ ToTable
    \/ Rebuild
    \/ NewWriter

SpecTree == InitTree /\ [][NextTree]_vars

\* Writing arbitrary messages through a tree (test_writer).
InitWriter ==
    /\ input \in TableInputs \cup {[kind |-> "data", data |-> DocSample]}
    /\ msg \in Messages
    /\ stream = <<>>
    /\ InitRest

NextWriter ==
    \/ FromData
    \/ FromTable
    \/ NewWriter
    \/ WriteSome
    \/ DropWriter

SpecWriter == InitWriter /\ [][NextWriter]_vars

\* Reading arbitrary bit streams through a tree (test_reader).
InitReader ==
    /\ input \in TableInputs
    /\ msg = <<>>
    /\ stream \in ForeignStreams
    /\ InitRest

NextReader ==
    \/ FromTable
    \/ NewReader
    \/ ReadSome

SpecReader == InitReader /\ [][NextReader]_vars

\* ------------------------------------------------------------- properties
Distinct(s) == {s[i] : i \in DOMAIN s}
IsPrefix(a, b) == Len(a) <= Len(b) /\ SubSeq(b, 1, Len(a)) = a

\* The node a path leads to from t, None when the path runs past a leaf.
RECURSIVE WalkTo(_, _, _)
WalkTo(t, path, i) ==
    IF i > Len(path) THEN t
    ELSE IF IsLeaf(t) THEN None
    ELSE WalkTo(IF path[i] THEN t[3] ELSE t[2], path, i + 1)

\* bits from position i on are the root-to-leaf paths of buf[j], buf[j+1], ...
RECURSIVE SpellsOut(_, _, _, _, _)
SpellsOut(root, bits, i, buf, j) ==
    IF j > Len(buf) THEN i > Len(bits)
    ELSE \E n \in 1..(Len(bits) - i + 1) :
            LET at == WalkTo(root, SubSeq(bits, i, i + n - 1), 1)
            IN /\ at # None
               /\ IsLeaf(at)
               /\ at[2] = buf[j]
               /\ SpellsOut(root, bits, i + n, buf, j + 1)

\* Bit i (from 0) a sink has received.
SinkBit(s, i) ==
    LET byte == IF i \div 8 < Len(s.out) THEN s.out[(i \div 8) + 1] ELSE s.buf
    IN (byte \div Pow2(7 - (i % 8))) % 2 = 1

\* The bits a sink has received from position from on.
SinkBitsFrom(s, from) == [k \in 1..(SinkBits(s) - from) |-> SinkBit(s, from + k - 1)]

\* The bits of a stream in [from, to).
StreamBits(src, from, to) == [k \in 1..(to - from) |-> read_bit(src, from + k - 1)[2]]

\* Total length of the code words of bytes.
RECURSIVE CodeBits(_, _, _)
CodeBits(tbl, bytes, i) ==
    IF i > Len(bytes) THEN 0 ELSE Len(tbl[bytes[i]]) + CodeBits(tbl, bytes, i + 1)

\* One read of the whole stream into a buffer no stream can fill.
FullRead == ReadLoop(tree, tree, stream, 0, ValidBits(stream) + 1, <<>>, 0)

\* C1: round trip. A sample with at least 2 distinct byte values yields a
\* tree; writing the sample through a writer on that tree never fails and
\* emits every byte; reading the dropped writer's stream through a reader on
\* the same tree until the end of the stream returns exactly the sample.
C1_RoundTrip ==
    /\ (pc # "start" /\ Cardinality(Distinct(input.data)) >= 2) => pc = "built"
    /\ (wres.called => wres.ok) /\ writer # "failed"
    /\ writer = "dropped" => emitted = input.data
    /\ (rres.called /\ rres.eof) => (rres.ok /\ out = input.data)

C1_Witness ==
    /\ input.data = DocSample
    /\ rres.called /\ rres.eof
    /\ out = DocSample

\* C2: decoder termination. Reading the stream the writer left for a
\* message of length L never fails, never returns more than L bytes in
\* total, has returned exactly L bytes once the end of the stream is met,
\* and every read call that starts on the exhausted stream returns Ok(0).
C2_Termination ==
    reader = "open" =>
        /\ rres.ok
        /\ Len(out) <= Len(msg)
        /\ rres.eof => Len(out) = Len(msg)
        /\ (rres.called /\ rres.start = ValidBits(stream)) => rres.n = 0

C2_Witness ==
    /\ reader = "open" /\ rres.called
    /\ rres.start = ValidBits(stream)
    /\ rres.req > 0 /\ rres.n = 0 /\ rres.ok
    /\ stream[Len(stream)] < 8
    /\ Len(out) = Len(msg)

\* C5: read calls of any buffer sizes, zero included, return in sequence
\* what one read into a large enough buffer returns: the bytes returned so
\* far are a prefix of it, all of it once the end of the stream is met; a
\* call consumes exactly the bits of the code words of the bytes it returns
\* and stops between two code words, where the next call starts; and a call
\* that does not meet the end of the stream fills its buffer.
C5_ResumeAcrossCalls ==
    reader = "open" =>
        /\ IsPrefix(out, FullRead.bytes)
        /\ rbit = CodeBits(to_lookup_table(tree), out, 1)
        /\ (rres.called /\ rres.eof) => out = FullRead.bytes
        /\ (rres.called /\ rres.ok /\ ~rres.eof) => rres.n = rres.req
        /\ (rres.called /\ rres.ok) => rres.partial = 0

C5_Witness ==
    /\ reader = "open" /\ rres.called /\ rres.eof
    /\ rres.start > 0
    /\ rres.n > 0
    /\ Len(out) > rres.n
    /\ out = FullRead.bytes
    /\ Cardinality(Distinct(out)) = 3

\* C6: when a read call meets the end of the bit source with no bit consumed
\* since the last byte it stored, it returns Ok(n), n the number of bytes it
\* stored (their code words are exactly the bits the call consumed), fewer
\* than the buffer length; when it meets the end after consuming a bit of an
\* unfinished code word it returns the InvalidData error.
C6_EndOfStream ==
    (rres.called /\ rres.eof) =>
        /\ rres.partial = 0 =>
              /\ rres.ok
              /\ rres.n = Len(rres.bytes)
              /\ rres.n < rres.req
              /\ SpellsOut(tree, StreamBits(stream, rres.start, rbit), 1,
                           rres.bytes, 1)
        /\ rres.partial > 0 => ~rres.ok

C6_Witness ==
    /\ rres.called /\ rres.eof
    /\ ~rres.ok
    /\ rres.partial > 0
    /\ rres.start > 0

\* C7: a write call fails exactly when its buffer holds a byte the tree has
\* no leaf for; otherwise it returns Ok(buf.len()) and the bits it handed
\* to the sink are the root-to-leaf paths of the buffer's bytes, in order.
C7_Write ==
    wres.called =>
        /\ ~wres.ok <=>
              \E i \in DOMAIN wres.buf : get_byte_prob(tree, wres.buf[i]) = None
        /\ wres.ok =>
              /\ wres.n = Len(wres.buf)
              /\ SpellsOut(tree, SinkBitsFrom(sink, wres.before), 1, wres.buf, 1)

C7_Witness ==
    /\ wres.called
    /\ ~wres.ok
    /\ SinkBits(sink) > wres.before

\* C3: from_data fails only on the empty sample.
C3_FailsOnlyOnEmpty ==
    (pc = "panicked" /\ input.kind = "data") => input.data = <<>>

\* C4: the tree rebuilt from the serialised table of a tree equals that
\* tree: same shape, same leaf symbols, same leaf weights.
C4_TableRoundTrip ==
    rtree # None => TreeEq(rtree, tree)

C4_Witness ==
    /\ rtree # None
    /\ input.kind = "table"
    /\ Len(LeavesFrom(rtable)) = 3
    /\ rtable[1] = rtable[3]

\* Occurrences of byte b in the sample an input stands for.
CountIn(inp, b) ==
    IF inp.kind = "data"
    THEN Cardinality({k \in DOMAIN inp.data : inp.data[k] = b})
    ELSE inp.data[b + 1]

DocTable == TableOf((0 :> 255) @@ (1 :> 127) @@ (2 :> 255))

\* C9 as stated: for the sample [0,0,1,2,2] the table is {0:255, 1:127,
\* 2:255} and the lookup table gives bytes 0 and 2 a single-bit code each
\* and byte 1 a two-bit code.
C9_AsStated ==
    (input.kind = "data" /\ input.data = DocSample /\ writer = "open") =>
        /\ table = DocTable
        /\ Len(lookup[0]) = 1
        /\ Len(lookup[2]) = 1
        /\ Len(lookup[1]) = 2

\* C9 amended: for the sample [0,0,1,2,2] the table is {0:255, 1:127,
\* 2:255} and the lookup table gives byte 2 the single-bit code 0, byte 0
\* the two-bit code 10 and byte 1 the two-bit code 11.
C9_DocScenario ==
    (input.kind = "data" /\ input.data = DocSample /\ writer = "open") =>
        /\ table = DocTable
        /\ lookup = (0 :> <<TRUE, FALSE>>) @@ (1 :> <<TRUE, TRUE>>)
                    @@ (2 :> <<FALSE>>)

C9_Witness ==
    /\ input.kind = "data"
    /\ input.data = DocSample
    /\ writer = "open"

\* C10: in the table computed from a sample, a byte that does not occur has
\* entry 0, a byte that occurs c times has entry max(1, floor(c * 255 / m)),
\* m the largest count, which lies in 1..255, and a byte that occurs m times
\* has entry 255; the table of the empty sample is all zero.
C10_TableWeights ==
    (pc # "start" /\ input.kind \in {"data", "counts"}) =>
        LET m == MaxOf({CountIn(input, b) : b \in 0..(TableLen - 1)})
        IN \A b \in 0..(TableLen - 1) :
              LET c == CountIn(input, b)
                  e == table[b + 1]
              IN /\ c = 0 => e = 0
                 /\ c > 0 => (e = Max(1, (c * 255) \div m) /\ e \in 1..255)
                 /\ (c > 0 /\ c = m) => e = 255

C10_Witness ==
    /\ pc # "start"
    /\ input.kind = "counts"
    /\ \E b \in Bytes :
          /\ input.data[b + 1] > 0
          /\ input.data[b + 1] * 255 < input.max
          /\ table[b + 1] = 1

=============================================================================
